---- MODULE Spec2Model ----
(***************************************************************************)
(* Model of vec_inf/cli/_helper.py: the Job Status Inference Engine        *)
(* (StatusHelper) and the Launch Parameter Compiler (LaunchHelper).        *)
(*                                                                         *)
(* A Python str is a sequence of lexemes.  A lexeme is either one          *)
(* separator character (" ", "\t", "\n", "=") or an indivisible run of     *)
(* other characters ("JobName", "foo", "Error", ...).  str.find, str.split,*)
(* the `in` operator, str.lower and str.strip are computed on these        *)
(* sequences the way Python computes them on characters.                   *)
(* None is the empty tuple <<>>, a present optional value s is <<s>>.      *)
(***************************************************************************)
EXTENDS Integers, Sequences, FiniteSets, TLC

VARIABLES
    output,         \* StatusHelper.output: raw scheduler text
    slurm_job_id,   \* StatusHelper.slurm_job_id, as it is formatted into file names
    fs,             \* the log directory: the .out, .err and .tunnel_url file of one job
    status_info,    \* StatusHelper.status_info
    pc,             \* "none": no StatusHelper yet; "fresh": constructed;
                    \* "done": process_job_state returned; "raised": it raised
    inst_calls,     \* calls of process_job_state on the current instance
    prev,           \* outcome of the call before the latest one (<<>> if none)
    model_configs,  \* what utils.load_config() returns
    model_name,     \* LaunchHelper.model_name
    model_config,   \* LaunchHelper.model_config (model_dump without model_name)
    cli_kwargs,     \* LaunchHelper.cli_kwargs
    params,         \* result of process_configuration
    command,        \* result of build_launch_command
    lpc             \* "new": no LaunchHelper yet; "notfound": its constructor
                    \* raised; "loaded": constructed; "merged": parameters
                    \* merged; "built": command built

statusVars == <<output, slurm_job_id, fs, status_info, pc, inst_calls, prev>>
launchVars == <<model_configs, model_name, model_config, cli_kwargs, params, command, lpc>>
vars == <<output, slurm_job_id, fs, status_info, pc, inst_calls, prev,
          model_configs, model_name, model_config, cli_kwargs, params,
          command, lpc>>

(***************************************************************************)
(* Bounds                                                                  *)
(***************************************************************************)
MaxOutLines == 2
MaxErrLines == 1
MaxTunnelLines == 2
MaxCalls == 2
MaxExtraTokens == 2

(***************************************************************************)
(* Python str and list operations                                          *)
(***************************************************************************)
None == <<>>
Some(s) == <<s>>

Whitespace == {" ", "\t", "\n"}

\* pat occurs in s at 0-based offset i
StartsAt(s, pat, i) ==
    /\ i + Len(pat) <= Len(s)
    /\ \A k \in 1..Len(pat) : s[i + k] = pat[k]

\* str.find: 0-based offset of the first occurrence, -1 if there is none
Find(s, pat) ==
    LET hits == {i \in 0..(Len(s) - Len(pat)) : StartsAt(s, pat, i)}
    IN IF hits = {} THEN -1
       ELSE CHOOSE i \in hits : \A j \in hits : i <= j

\* the `in` operator on str
Contains(s, pat) == Find(s, pat) # -1

\* s[a:b] and s[a:] for 0 <= a
Slice(s, a, b) == SubSeq(s, a + 1, IF b > Len(s) THEN Len(s) ELSE b)
SliceFrom(s, a) == SubSeq(s, a + 1, Len(s))

\* str.split(sep) for a non-empty separator
RECURSIVE Split(_, _)
Split(s, sep) ==
    LET i == Find(s, sep)
    IN IF i = -1 THEN <<s>>
       ELSE <<Slice(s, 0, i)>> \o Split(SliceFrom(s, i + Len(sep)), sep)

\* list[i] raises IndexError unless i < len(list)
HasIndex(list, i) == i < Len(list)
Index(list, i) == list[i + 1]

\* str.lower, lexeme by lexeme
LowerLexeme(c) ==
    CASE c \in {"Error", "ERROR", "error"} -> "error"
      [] c \in {"Exception", "EXCEPTION", "exception"} -> "exception"
      [] c = "Runtime" -> "runtime"
      [] OTHER -> c
Lower(s) == [k \in 1..Len(s) |-> LowerLexeme(s[k])]

\* str.strip
RECURSIVE LStrip(_)
LStrip(s) ==
    IF s # <<>> /\ Head(s) \in Whitespace THEN LStrip(Tail(s)) ELSE s
RECURSIVE RStrip(_)
RStrip(s) ==
    IF s # <<>> /\ s[Len(s)] \in Whitespace
    THEN RStrip(SubSeq(s, 1, Len(s) - 1)) ELSE s
Strip(s) == RStrip(LStrip(s))

\* file.readlines: the lines with their terminators
RECURSIVE Readlines(_)
Readlines(s) ==
    IF s = <<>> THEN <<>>
    ELSE LET i == Find(s, <<"\n">>)
         IN IF i = -1 THEN <<s>>
            ELSE <<Slice(s, 0, i + 1)>> \o Readlines(SliceFrom(s, i + 1))

(***************************************************************************)
(* Literals of the status engine                                           *)
(***************************************************************************)
UNAVAILABLE == <<"UNAVAILABLE">>
RUNNING == <<"RUNNING">>
PENDING == <<"PENDING">>
CANCELLED == <<"CANCELLED">>
COMPLETED == <<"COMPLETED">>
FAILED == <<"FAILED">>
TIMEOUT == <<"TIMEOUT">>
SHUTDOWN == <<"SHUTDOWN">>
READY == <<"READY">>
LAUNCHING == <<"LAUNCHING">>
ShutdownStates == {CANCELLED, COMPLETED, FAILED, TIMEOUT}
ServerMarker == <<"Server", " ", "address:">>
ServerPrefix == <<"Server", " ", "address:", " ">>
ReasonMarker == <<"Reason", "=">>
FailedReason == <<"Error", " ", "in", " ", "model", " ", "initialization">>
NamePos == 1
StatePos == 9

(***************************************************************************)
(* The log directory                                                       *)
(***************************************************************************)
Absent == [kind |-> "absent", content |-> <<>>]
Unreadable == [kind |-> "unreadable", content |-> <<>>]
File(c) == [kind |-> "file", content |-> c]

\* the directory holds the logs of one job of one model
LogModel == <<"foo">>
LogJob == <<"42">>

\* the file at <log_dir>/<model_name>.<job_id>.<ext>
LogFile(dir, name, job, ext) ==
    IF name = LogModel /\ job = LogJob THEN dir[ext] ELSE Absent

(***************************************************************************)
(* StatusHelper                                                            *)
(***************************************************************************)
get_base_status_data(out) ==
    LET toks == Split(out, <<" ">>)
        nameParts == Split(Index(toks, NamePos), <<"=">>)
        stateParts == Split(Index(toks, StatePos), <<"=">>)
        ok == /\ HasIndex(toks, NamePos)
              /\ HasIndex(nameParts, 1)
              /\ HasIndex(toks, StatePos)
              /\ HasIndex(stateParts, 1)
    IN [model_name |-> IF ok THEN Index(nameParts, 1) ELSE UNAVAILABLE,
        status |-> UNAVAILABLE,
        base_url |-> UNAVAILABLE,
        cloudflare_url |-> UNAVAILABLE,
        state |-> IF ok THEN Index(stateParts, 1) ELSE UNAVAILABLE,
        pending_reason |-> None,
        failed_reason |-> None]

Returned(info) == [info |-> info, raised |-> FALSE]
Raised(info) == [info |-> info, raised |-> TRUE]

HasMarker(line) == Contains(line, ServerMarker)
NonBlank(line) == Strip(line) # <<>>

\* mutant: the tunnel file is read whether or not the server is ready
check_model_health_tunnel(info, job, dir) ==
    LET f == LogFile(dir, info.model_name, job, "out")
        t == LogFile(dir, info.model_name, job, "tunnel_url")
        stripped == SelectSeq(Readlines(t.content), NonBlank)
        tun(i) == IF t.kind = "file" /\ stripped # <<>>
                  THEN [i EXCEPT !.cloudflare_url = Strip(stripped[Len(stripped)])]
                  ELSE i
    IN
    IF f.kind = "absent" THEN Returned(tun([info EXCEPT !.status = LAUNCHING]))
    ELSE IF f.kind = "unreadable" THEN Raised(info)
    ELSE IF Contains(f.content, ServerMarker) THEN
        LET ready == [info EXCEPT !.status = READY]
            server_url_line ==
                Index(SelectSeq(Split(f.content, <<"\n">>), HasMarker), 0)
            parts == Split(server_url_line, ServerPrefix)
        IN IF ~HasIndex(parts, 1)
           THEN Returned(tun([ready EXCEPT !.status = LAUNCHING]))
           ELSE IF t.kind = "unreadable"
           THEN Raised([ready EXCEPT !.base_url = Index(parts, 1)])
           ELSE Returned(tun([ready EXCEPT !.base_url = Index(parts, 1)]))
    ELSE Returned(tun([info EXCEPT !.status = LAUNCHING]))

check_model_health(info, job, dir) ==
    LET f == LogFile(dir, info.model_name, job, "out") IN
    IF f.kind = "absent" THEN Returned([info EXCEPT !.status = LAUNCHING])
    ELSE IF f.kind = "unreadable" THEN Raised(info)
    ELSE IF Contains(f.content, ServerMarker) THEN
        LET ready == [info EXCEPT !.status = READY]
            server_url_line ==
                Index(SelectSeq(Split(f.content, <<"\n">>), HasMarker), 0)
            parts == Split(server_url_line, ServerPrefix)
        IN IF ~HasIndex(parts, 1)
           THEN Returned([ready EXCEPT !.status = LAUNCHING])
           ELSE LET withUrl == [ready EXCEPT !.base_url = Index(parts, 1)]
                    t == LogFile(dir, info.model_name, job, "tunnel_url")
                    stripped == SelectSeq(Readlines(t.content), NonBlank)
                IN IF t.kind = "absent" THEN Returned(withUrl)
                   ELSE IF t.kind = "unreadable" THEN Raised(withUrl)
                   ELSE IF stripped # <<>>
                   THEN Returned([withUrl EXCEPT !.cloudflare_url =
                                     Strip(stripped[Len(stripped)])])
                   ELSE Returned(withUrl)
    ELSE Returned([info EXCEPT !.status = LAUNCHING])

\* mutant: the error log is compared case-sensitively
process_running_state_case(info, job, dir) ==
    LET h == check_model_health(info, job, dir)
        f == LogFile(dir, h.info.model_name, job, "err")
    IN IF h.raised THEN h
       ELSE IF h.info.status # LAUNCHING THEN h
       ELSE IF f.kind = "absent" THEN h
       ELSE IF f.kind = "unreadable" THEN Raised(h.info)
       ELSE IF \/ Contains(f.content, <<"error">>)
               \/ Contains(f.content, <<"exception">>)
       THEN Returned([h.info EXCEPT !.status = FAILED,
                                    !.failed_reason = Some(FailedReason)])
       ELSE h

process_running_state(info, job, dir) ==
    LET h == check_model_health(info, job, dir)
        f == LogFile(dir, h.info.model_name, job, "err")
    IN IF h.raised THEN h
       ELSE IF h.info.status # LAUNCHING THEN h
       ELSE IF f.kind = "absent" THEN h
       ELSE IF f.kind = "unreadable" THEN Raised(h.info)
       ELSE IF \/ Contains(Lower(f.content), <<"error">>)
               \/ Contains(Lower(f.content), <<"exception">>)
       THEN Returned([h.info EXCEPT !.status = FAILED,
                                    !.failed_reason = Some(FailedReason)])
       ELSE h

process_pending_state(info, out) ==
    LET pend == [info EXCEPT !.status = PENDING]
        reason_index == Find(out, ReasonMarker)
        reason_str == SliceFrom(out, reason_index)
        end_index == Find(reason_str, <<" ">>)
    IN IF reason_index # -1 /\ end_index # -1
       THEN [pend EXCEPT !.pending_reason =
                Some(Slice(reason_str, Len(ReasonMarker), end_index))]
       ELSE pend

\* mutant: the error log is scanned before the health check instead of after
process_job_state_order(info, out, job, dir) ==
    LET f == LogFile(dir, info.model_name, job, "err")
        failed == /\ info.status = LAUNCHING
                  /\ f.kind = "file"
                  /\ \/ Contains(Lower(f.content), <<"error">>)
                     \/ Contains(Lower(f.content), <<"exception">>)
        scanned == IF failed
                   THEN [info EXCEPT !.status = FAILED,
                                     !.failed_reason = Some(FailedReason)]
                   ELSE info
    IN IF info.state = RUNNING
       THEN IF info.status = LAUNCHING /\ f.kind = "unreadable"
            THEN Raised(info)
            ELSE check_model_health(scanned, job, dir)
       ELSE IF info.state = PENDING
       THEN Returned(process_pending_state(info, out))
       ELSE IF info.state \in ShutdownStates
       THEN Returned([info EXCEPT !.status = SHUTDOWN])
       ELSE Returned([info EXCEPT !.status = UNAVAILABLE])

process_job_state(info, out, job, dir) ==
    IF info.state = RUNNING THEN process_running_state(info, job, dir)
    ELSE IF info.state = PENDING THEN Returned(process_pending_state(info, out))
    ELSE IF info.state \in ShutdownStates
    THEN Returned([info EXCEPT !.status = SHUTDOWN])
    ELSE Returned([info EXCEPT !.status = UNAVAILABLE])

(***************************************************************************)
(* Inputs of the status engine                                             *)
(***************************************************************************)
SeqsUpTo(S, n) == UNION {[1..k -> S] : k \in 0..n}

RECURSIVE Join(_, _)
Join(list, sep) ==
    IF list = <<>> THEN <<>>
    ELSE IF Len(list) = 1 THEN Head(list)
    ELSE Head(list) \o sep \o Join(Tail(list), sep)

RECURSIVE Lines(_)
Lines(list) ==
    IF list = <<>> THEN <<>> ELSE Head(list) \o <<"\n">> \o Lines(Tail(list))

JobIdTok == <<"JobId", "=", "42">>
Filler == <<"k", "=", "v">>
GoodName == <<"JobName", "=", "foo">>
NameToks ==
    {GoodName,
     <<"JobName", "=", "bar">>,
     <<"JobName", "=", "foo", "=", "bar">>,
     <<"JobName", "=">>,
     <<"JobName">>}
NativeStates ==
    {"RUNNING", "PENDING", "CANCELLED", "COMPLETED", "FAILED", "TIMEOUT",
     "SUSPENDED", "UNAVAILABLE"}
StateTok(s) == <<"JobState", "=", s>>
StateToks ==
    {StateTok(s) : s \in NativeStates}
    \cup {<<"JobState">>, <<"JobState", "=", "PENDING", "=", "x">>}
ExtraToks ==
    {<<"Reason", "=", "Resources">>,
     <<"unavailable">>,
     <<"Reason", "=", "Priority", "\t", "Dependency=(null)">>}
Trailers == {<<>>, <<" ">>, <<"\n">>}

\* the single-line record: JobId, JobName, seven more fields, JobState
Record(name, state) ==
    <<JobIdTok, name>> \o [k \in 1..(StatePos - NamePos - 1) |-> Filler]
    \o <<state>>

StateTexts == {Join(Record(n, s), <<" ">>) : n \in NameToks, s \in StateToks}
PendingTexts ==
    {Join(Record(GoodName, StateTok("PENDING")) \o extra, <<" ">>) \o t :
        extra \in SeqsUpTo(ExtraToks, MaxExtraTokens), t \in Trailers}
TruncatedTexts ==
    {Join(SubSeq(Record(GoodName, StateTok("RUNNING")), 1, k), <<" ">>) :
        k \in 0..StatePos}
\* a doubled space shifts every later token by one position
ShiftedTexts ==
    {Join(<<JobIdTok, <<>>>> \o Tail(Record(GoodName, StateTok(s))), <<" ">>) :
        s \in {"RUNNING", "PENDING"}}
RunningTexts == {Join(Record(GoodName, StateTok("RUNNING")), <<" ">>)}
RawTexts ==
    StateTexts \cup PendingTexts \cup TruncatedTexts \cup ShiftedTexts

OutLines ==
    {<<"booting">>,
     <<"Server", " ", "address:", " ", "http://h:8080">>,
     <<"Server", " ", "address:", "http://g:8080">>}
ErrLines ==
    {<<"ok">>,
     <<"Runtime", "Error", ":", " ", "boom">>,
     <<"EXCEPTION">>}
TunnelLines ==
    {<<" ">>,
     <<"https://t1">>,
     <<" ", "https://t2", " ">>}
FilesOf(lineSet, n) ==
    {Absent, Unreadable} \cup {File(Lines(ls)) : ls \in SeqsUpTo(lineSet, n)}
AllDirs ==
    [out : FilesOf(OutLines, MaxOutLines),
     err : FilesOf(ErrLines, MaxErrLines),
     tunnel_url : FilesOf(TunnelLines, MaxTunnelLines)]
SomeDirs ==
    {[out |-> Absent, err |-> Absent, tunnel_url |-> Absent],
     [out |-> Unreadable, err |-> Unreadable, tunnel_url |-> Unreadable],
     [out |-> File(Lines(<<<<"Server", " ", "address:", " ", "http://h:8080">>>>)),
      err |-> File(Lines(<<<<"Runtime", "Error", ":", " ", "boom">>>>)),
      tunnel_url |-> File(Lines(<<<<"https://t1">>>>))]}
JobIds == {LogJob, <<"43">>}

NoInfo == [model_name |-> <<>>, status |-> <<>>, base_url |-> <<>>,
           cloudflare_url |-> <<>>, state |-> <<>>,
           pending_reason |-> None, failed_reason |-> None]

LaunchIdle ==
    /\ model_configs = <<>>
    /\ model_name = <<>>
    /\ model_config = <<>>
    /\ cli_kwargs = <<>>
    /\ params = <<>>
    /\ command = <<>>
    /\ lpc = "idle"

(***************************************************************************)
(* The status engine as a state machine                                    *)
(***************************************************************************)
Ended == pc \in {"done", "raised"}

\* what the latest call of process_job_state left behind
Outcome == [info |-> status_info, raised |-> (pc = "raised")]
Remember == IF Ended THEN <<Outcome>> ELSE prev

Init ==
    /\ \/ output \in RunningTexts /\ fs \in AllDirs /\ slurm_job_id = LogJob
       \/ output \in RawTexts /\ fs \in SomeDirs /\ slurm_job_id \in JobIds
    /\ status_info = NoInfo
    /\ pc = "none"
    /\ inst_calls = 0
    /\ prev = <<>>
    /\ LaunchIdle

\* StatusHelper(slurm_job_id, output, log_dir)
Construct ==
    /\ status_info' = get_base_status_data(output)
    /\ pc' = "fresh"
    /\ inst_calls' = 0
    /\ prev' = Remember
    /\ UNCHANGED <<output, slurm_job_id, fs>>
    /\ UNCHANGED launchVars

\* helper.process_job_state()
ProcessJobState ==
    /\ pc # "none"
    /\ inst_calls < MaxCalls
    /\ LET r == process_job_state(status_info, output, slurm_job_id, fs)
       IN /\ status_info' = r.info
          /\ pc' = IF r.raised THEN "raised" ELSE "done"
    /\ inst_calls' = inst_calls + 1
    /\ prev' = Remember
    /\ UNCHANGED <<output, slurm_job_id, fs>>
    /\ UNCHANGED launchVars

Next == Construct \/ ProcessJobState

Spec == Init /\ [][Next]_vars

(***************************************************************************)
(* Properties of the status engine                                         *)
(***************************************************************************)
StatusVocabulary == {UNAVAILABLE, PENDING, SHUTDOWN, READY, LAUNCHING, FAILED}
\* the first call of process_job_state on a fresh StatusHelper has ended
FirstEnded == Ended /\ inst_calls = 1
\* the first call of process_job_state on a fresh StatusHelper has returned
FirstReturned == pc = "done" /\ inst_calls = 1
OutFile == LogFile(fs, status_info.model_name, slurm_job_id, "out")
ErrFile == LogFile(fs, status_info.model_name, slurm_job_id, "err")
TunnelFile == LogFile(fs, status_info.model_name, slurm_job_id, "tunnel_url")

\* C1: whatever the raw text and whatever the state of the three log files
\* (absent, any content, unreadable), process_job_state never raises and
\* leaves a status of the vocabulary.
C1_NoExceptionEscapes ==
    /\ pc # "raised"
    /\ pc = "done" => status_info.status \in StatusVocabulary

\* C4: after the first call on a fresh StatusHelper the status is a function
\* of the native state: PENDING iff PENDING; SHUTDOWN iff CANCELLED,
\* COMPLETED, FAILED or TIMEOUT (then no reason and no URL); READY, LAUNCHING
\* or FAILED iff RUNNING; UNAVAILABLE for every other native state.
C4_StatusByNativeState ==
    FirstEnded =>
        LET st == status_info.status
            nat == status_info.state
        IN /\ (st = PENDING) <=> (nat = PENDING)
           /\ (st = SHUTDOWN) <=> (nat \in ShutdownStates)
           /\ nat \in ShutdownStates =>
                 /\ status_info.pending_reason = None
                 /\ status_info.failed_reason = None
                 /\ status_info.base_url = UNAVAILABLE
                 /\ status_info.cloudflare_url = UNAVAILABLE
           /\ (st \in {READY, LAUNCHING, FAILED}) <=> (nat = RUNNING)
           /\ nat \notin ({RUNNING, PENDING} \cup ShutdownStates)
                 => st = UNAVAILABLE

\* the text that follows the marker on a line, without the blank after it
AfterMarker(line) ==
    LET rest == SliceFrom(line, Find(line, ServerMarker) + Len(ServerMarker))
    IN IF rest # <<>> /\ Head(rest) = " " THEN Tail(rest) ELSE rest
FirstMarkerLine(content) ==
    LET ls == Split(content, <<"\n">>)
        k == CHOOSE i \in 1..Len(ls) :
                /\ Contains(ls[i], ServerMarker)
                /\ \A j \in 1..(i - 1) : ~Contains(ls[j], ServerMarker)
    IN ls[k]

\* C5: native state RUNNING and an .out file whose content contains the
\* marker "Server address:" give status READY and the base URL that follows
\* the marker on the first line containing it, whatever follows the marker.
C5_ReadyWheneverMarker ==
    (/\ FirstReturned
     /\ status_info.state = RUNNING
     /\ OutFile.kind = "file"
     /\ Contains(OutFile.content, ServerMarker))
    => /\ status_info.status = READY
       /\ status_info.base_url = AfterMarker(FirstMarkerLine(OutFile.content))

ErrorWords ==
    {"error", "Error", "ERROR", "exception", "Exception", "EXCEPTION"}
MarkerNotFound ==
    \/ OutFile.kind = "absent"
    \/ OutFile.kind = "file" /\ ~Contains(OutFile.content, ServerMarker)
ErrHasKeyword ==
    /\ ErrFile.kind = "file"
    /\ \E k \in 1..Len(ErrFile.content) : ErrFile.content[k] \in ErrorWords

\* C6: native state RUNNING without a ready marker (no .out file, or one
\* lacking the marker): FAILED with the fixed reason iff the .err file exists
\* and contains "error" or "exception" in any letter case, else LAUNCHING
\* with no failed reason.
C6_FailedIffErrorLogged ==
    (FirstEnded /\ status_info.state = RUNNING /\ MarkerNotFound)
    => IF ErrHasKeyword
       THEN /\ status_info.status = FAILED
            /\ status_info.failed_reason = Some(FailedReason)
       ELSE /\ status_info.status = LAUNCHING
            /\ status_info.failed_reason = None

\* an .out file without the marker and an .err file with "Error" or
\* "EXCEPTION" in upper case letters escalated to FAILED
C6_Witness ==
    /\ FirstReturned
    /\ status_info.state = RUNNING
    /\ OutFile.kind = "file"
    /\ MarkerNotFound
    /\ ErrHasKeyword
    /\ ~Contains(ErrFile.content, <<"error">>)
    /\ status_info.status = FAILED

\* the reason as the claim reads it: from after the first "Reason=" up to
\* the next space, tab or newline
ReasonUpToWhitespace(text) ==
    LET i == Find(text, ReasonMarker)
        rest == SliceFrom(text, i + Len(ReasonMarker))
        ends == {j \in 1..Len(rest) : rest[j] \in Whitespace}
        e == CHOOSE j \in ends : \A k \in ends : j <= k
    IN IF i = -1 \/ ends = {} THEN None
       ELSE Some(SubSeq(rest, 1, e - 1))

\* C7: for native state PENDING the pending reason is the text from after
\* the first "Reason=" up to the next whitespace character (space, tab or
\* newline), and null without marker or without whitespace after it.
C7_ReasonUpToWhitespace ==
    (FirstReturned /\ status_info.state = PENDING)
    => status_info.pending_reason = ReasonUpToWhitespace(output)

\* C8: status inference is idempotent: a call of process_job_state, on the
\* same instance again or on a fresh one, ends as the call before it ended,
\* in every field, given the same raw text, job id and log directory.
C8_Idempotent ==
    (Ended /\ prev # <<>>) => prev[1] = Outcome

\* the second call on one instance ended, after a first call that escalated
\* to FAILED
C8_Witness ==
    /\ Ended
    /\ inst_calls = 2
    /\ prev # <<>>
    /\ prev[1].info.status = FAILED
    /\ prev[1].info.failed_reason # None

\* Python's str.split() without argument: the runs of non-whitespace
RECURSIVE WhitespaceSplit(_)
WhitespaceSplit(s) ==
    LET t == LStrip(s)
        ends == {j \in 1..Len(t) : t[j] \in Whitespace}
        e == CHOOSE j \in ends : \A k \in ends : j <= k
    IN IF t = <<>> THEN <<>>
       ELSE IF ends = {} THEN <<t>>
       ELSE <<SubSeq(t, 1, e - 1)>> \o WhitespaceSplit(SliceFrom(t, e))
\* the remainder of a token after its first "="
AfterKey(tok) == SliceFrom(tok, Find(tok, <<"=">>) + 1)

\* C9: base extraction yields token 1 and token 9 of the whitespace-split
\* text, each without its "key=" prefix (the whole remainder after the first
\* "="), or UNAVAILABLE for both when either token is missing or malformed;
\* the other fields start as UNAVAILABLE status and URLs and null reasons.
C9_BaseExtraction ==
    pc = "fresh" =>
        LET toks == WhitespaceSplit(output)
            ok == /\ HasIndex(toks, StatePos)
                  /\ Contains(Index(toks, NamePos), <<"=">>)
                  /\ Contains(Index(toks, StatePos), <<"=">>)
        IN /\ status_info.model_name =
                 (IF ok THEN AfterKey(Index(toks, NamePos)) ELSE UNAVAILABLE)
           /\ status_info.state =
                 (IF ok THEN AfterKey(Index(toks, StatePos)) ELSE UNAVAILABLE)
           /\ status_info.status = UNAVAILABLE
           /\ status_info.base_url = UNAVAILABLE
           /\ status_info.cloudflare_url = UNAVAILABLE
           /\ status_info.pending_reason = None
           /\ status_info.failed_reason = None

\* C10: after the first call on a fresh StatusHelper the detail fields agree
\* with the status: a failed reason iff FAILED, a pending reason only if
\* PENDING, a base URL or tunnel URL other than UNAVAILABLE only if READY.
C10_DetailsMatchStatus ==
    FirstEnded =>
        /\ (status_info.failed_reason # None) <=> (status_info.status = FAILED)
        /\ status_info.pending_reason # None => status_info.status = PENDING
        /\ status_info.base_url # UNAVAILABLE => status_info.status = READY
        /\ status_info.cloudflare_url # UNAVAILABLE
              => status_info.status = READY

\* a job that is LAUNCHING or FAILED while its tunnel file holds a URL
C10_Witness ==
    /\ FirstEnded
    /\ status_info.status \in {LAUNCHING, FAILED}
    /\ TunnelFile.kind = "file"
    /\ SelectSeq(Readlines(TunnelFile.content), NonBlank) # <<>>
    /\ status_info.cloudflare_url = UNAVAILABLE

(***************************************************************************)
(* Python values and dicts of the launch compiler                          *)
(*                                                                         *)
(* A value is its type and its str(): [t |-> "bool", v |-> "True"].        *)
(* A dict is the sequence of its items in insertion order.                 *)
(***************************************************************************)
PyNone == [t |-> "NoneType", v |-> "None"]
PyBool(b) == [t |-> "bool", v |-> IF b THEN "True" ELSE "False"]
PyStr(x) == [t |-> "str", v |-> x]
PyInt(x) == [t |-> "int", v |-> x]

\* bool(value)
Truthy(x) ==
    CASE x.t = "NoneType" -> FALSE
      [] x.t = "bool" -> x.v = "True"
      [] x.t = "int" -> x.v # "0"
      [] OTHER -> x.v # ""

\* str.lower on the words an override can be
LowerWord(w) ==
    CASE w \in {"True", "TRUE", "true"} -> "true"
      [] w \in {"False", "FALSE", "false"} -> "false"
      [] OTHER -> w

Item(k, x) == [k |-> k, v |-> x]
HasKey(d, k) == \E i \in 1..Len(d) : d[i].k = k
\* dict.get(k): None when the key is missing
DictGet(d, k) ==
    IF HasKey(d, k) THEN d[CHOOSE i \in 1..Len(d) : d[i].k = k].v ELSE PyNone
\* d[k] = x
DictSet(d, k, x) ==
    IF HasKey(d, k)
    THEN [i \in 1..Len(d) |-> IF d[i].k = k THEN Item(k, x) ELSE d[i]]
    ELSE Append(d, Item(k, x))

\* str.replace(a, b) for single characters
Replace(s, a, b) == [i \in 1..Len(s) |-> IF s[i] = a THEN b ELSE s[i]]

PIPELINE_PARALLELISM == <<"pipeline", "_", "parallelism">>
ENFORCE_EAGER == <<"enforce", "_", "eager">>
ENABLE_CLOUDFLARE_TUNNEL == <<"enable", "_", "cloudflare", "_", "tunnel">>
JSON_MODE == <<"json", "_", "mode">>
NUM_GPUS == <<"num", "_", "gpus">>
MAX_MODEL_LEN == <<"max", "_", "model", "_", "len">>
BoolFields == <<PIPELINE_PARALLELISM, ENFORCE_EAGER>>
ExcludedKeys ==
    {JSON_MODE, PIPELINE_PARALLELISM, ENFORCE_EAGER, ENABLE_CLOUDFLARE_TUNNEL}

(***************************************************************************)
(* LaunchHelper                                                            *)
(***************************************************************************)
\* the first configuration of that name, <<>> when there is none
get_model_configuration(configs, name) ==
    LET hits == {i \in 1..Len(configs) : configs[i].model_name = name}
    IN IF hits = {} THEN <<>>
       ELSE <<configs[CHOOSE i \in hits : \A j \in hits : i <= j]>>

get_base_launch_command == <<"bash", " ", "launch_server.sh">>

convert_boolean_value(value) ==
    IF value.t = "str"
    THEN (IF LowerWord(value.v) = "true" THEN PyStr("True") ELSE PyStr("False"))
    ELSE (IF Truthy(value) THEN PyStr("True") ELSE PyStr("False"))

RECURSIVE MergeBooleans(_, _, _)
MergeBooleans(p, kwargs, fields) ==
    IF fields = <<>> THEN p
    ELSE LET value == DictGet(kwargs, Head(fields))
         IN MergeBooleans(
                IF value # PyNone
                THEN DictSet(p, Head(fields), convert_boolean_value(value))
                ELSE p,
                kwargs, Tail(fields))

RECURSIVE MergeOthers(_, _)
MergeOthers(p, items) ==
    IF items = <<>> THEN p
    ELSE MergeOthers(
             IF Head(items).v # PyNone /\ Head(items).k \notin ExcludedKeys
             THEN DictSet(p, Head(items).k, Head(items).v)
             ELSE p,
             Tail(items))

process_configuration(config, kwargs) ==
    LET booleans == MergeBooleans(config, kwargs, BoolFields)
        flags == IF Truthy(DictGet(kwargs, ENABLE_CLOUDFLARE_TUNNEL))
                 THEN DictSet(booleans, ENABLE_CLOUDFLARE_TUNNEL, PyStr("True"))
                 ELSE booleans
    IN MergeOthers(flags, kwargs)

RECURSIVE build_launch_command(_, _)
build_launch_command(base_command, ps) ==
    IF ps = <<>> THEN base_command
    ELSE LET param_name == Head(ps).k
             param_value == Head(ps).v
             arg_name == Replace(param_name, "_", "-")
         IN IF param_value = PyNone
            THEN build_launch_command(base_command, Tail(ps))
            ELSE IF /\ param_name = ENABLE_CLOUDFLARE_TUNNEL
                    /\ param_value = PyStr("True")
            THEN build_launch_command(
                     base_command \o <<" ", "--">> \o arg_name, Tail(ps))
            ELSE build_launch_command(
                     base_command \o <<" ", "--">> \o arg_name
                         \o <<" ", param_value.v>>,
                     Tail(ps))

(***************************************************************************)
(* Inputs of the launch compiler                                           *)
(***************************************************************************)
KnownModel == <<"llama">>
ModelNames == {KnownModel, <<"mystery">>}

\* model_dump(exclude={"model_name"}) of a configuration, in field order
ModelDumps ==
    {<<Item(NUM_GPUS, g), Item(PIPELINE_PARALLELISM, pp),
       Item(ENFORCE_EAGER, ee), Item(ENABLE_CLOUDFLARE_TUNNEL, tn)>> :
        g \in {PyInt("1"), PyNone},
        pp \in {PyBool(TRUE), PyBool(FALSE)},
        ee \in {PyBool(TRUE), PyBool(FALSE)},
        tn \in {PyBool(TRUE), PyBool(FALSE), PyStr("True"), PyStr("False"),
                PyNone}}

\* an override is left out of the mapping, None, or a value
Omitted == <<>>
Overrides(k, values) == {Omitted} \cup {<<Item(k, x)>> : x \in values}
CliKwargs ==
    {a \o b \o c \o d \o e \o f :
        a \in Overrides(NUM_GPUS, {PyNone, PyInt("2")}),
        b \in Overrides(PIPELINE_PARALLELISM,
                        {PyNone, PyBool(TRUE), PyBool(FALSE), PyStr("TRUE"),
                         PyStr("false"), PyInt("0")}),
        c \in Overrides(ENFORCE_EAGER, {PyNone, PyBool(FALSE), PyStr("true")}),
        d \in Overrides(ENABLE_CLOUDFLARE_TUNNEL,
                        {PyNone, PyBool(TRUE), PyBool(FALSE)}),
        e \in Overrides(JSON_MODE, {PyBool(TRUE)}),
        f \in Overrides(MAX_MODEL_LEN, {PyInt("4096")})}

StatusIdle ==
    /\ output = <<>>
    /\ slurm_job_id = <<>>
    /\ fs = [out |-> Absent, err |-> Absent, tunnel_url |-> Absent]
    /\ status_info = NoInfo
    /\ pc = "idle"
    /\ inst_calls = 0
    /\ prev = <<>>

(***************************************************************************)
(* The launch compiler as a state machine                                  *)
(***************************************************************************)
LaunchInit ==
    /\ model_configs \in
          {<<[model_name |-> KnownModel, fields |-> d]>> : d \in ModelDumps}
    /\ model_name \in ModelNames
    /\ cli_kwargs \in CliKwargs
    /\ model_config = <<>>
    /\ params = <<>>
    /\ command = <<>>
    /\ lpc = "new"
    /\ StatusIdle

\* LaunchHelper(model_name, cli_kwargs)
LaunchConstruct ==
    /\ lpc = "new"
    /\ LET found == get_model_configuration(model_configs, model_name)
       IN IF found = <<>>
          THEN lpc' = "notfound" /\ UNCHANGED model_config
          ELSE lpc' = "loaded" /\ model_config' = found[1].fields
    /\ UNCHANGED <<model_configs, model_name, cli_kwargs, params, command>>
    /\ UNCHANGED statusVars

\* params = helper.process_configuration()
ProcessConfiguration ==
    /\ lpc = "loaded"
    /\ params' = process_configuration(model_config, cli_kwargs)
    /\ lpc' = "merged"
    /\ UNCHANGED <<model_configs, model_name, model_config, cli_kwargs, command>>
    /\ UNCHANGED statusVars

\* command = helper.build_launch_command(helper.get_base_launch_command(), params)
BuildLaunchCommand ==
    /\ lpc = "merged"
    /\ command' = build_launch_command(get_base_launch_command, params)
    /\ lpc' = "built"
    /\ UNCHANGED <<model_configs, model_name, model_config, cli_kwargs, params>>
    /\ UNCHANGED statusVars

LaunchNext == LaunchConstruct \/ ProcessConfiguration \/ BuildLaunchCommand

LaunchSpec == LaunchInit /\ [][LaunchNext]_vars

(***************************************************************************)
(* Properties of the launch compiler                                       *)
(***************************************************************************)
\* the override values that mean "on" for a boolean field
TrueOverrides ==
    {PyBool(TRUE), PyStr("true"), PyStr("True"), PyStr("TRUE"), PyInt("1"),
     PyInt("2")}
IsOn(x) == x \in {PyBool(TRUE), PyStr("True")}
Overridden(k) == DictGet(cli_kwargs, k) # PyNone

\* C2: every launch parameter whose override is not None takes its value
\* from the override and not from the configuration: "True"/"False" for
\* pipeline_parallelism and enforce_eager, on/off for
\* enable_cloudflare_tunnel, the override itself for every other field.
C2_OverrideWins ==
    lpc \in {"merged", "built"} =>
        /\ \A i \in 1..Len(BoolFields) :
              Overridden(BoolFields[i]) =>
                 DictGet(params, BoolFields[i]) =
                    (IF DictGet(cli_kwargs, BoolFields[i]) \in TrueOverrides
                     THEN PyStr("True") ELSE PyStr("False"))
        /\ Overridden(ENABLE_CLOUDFLARE_TUNNEL) =>
              (IsOn(DictGet(params, ENABLE_CLOUDFLARE_TUNNEL))
                  <=> Truthy(DictGet(cli_kwargs, ENABLE_CLOUDFLARE_TUNNEL)))
        /\ \A k \in {NUM_GPUS, MAX_MODEL_LEN} :
              Overridden(k) => DictGet(params, k) = DictGet(cli_kwargs, k)

TunnelFlag == <<"--", "enable", "-", "cloudflare", "-", "tunnel">>

\* C3: in the built command the token --enable-cloudflare-tunnel is never
\* followed by a value argument: it is the last token or the next token is
\* another flag.
C3_TunnelFlagIsBare ==
    lpc = "built" =>
        LET toks == Split(command, <<" ">>)
        IN \A i \in 1..Len(toks) :
              toks[i] = TunnelFlag =>
                 \/ i = Len(toks)
                 \/ Head(toks[i + 1]) = "--"

====
